---- MODULE Spec2Model ----
(***************************************************************************)
(* A model of PowerSchoolAPIClient (src/src/PowerSchoolAPIClient.ts): the  *)
(* constructor's one-shot token fetch, the private Axios instance that the *)
(* success callback installs, `get` and the request path it builds, the    *)
(* response-transform pipeline, and the static handleAxiosError.           *)
(*                                                                         *)
(* JavaScript values are tagged records, so that 0, '', null and undefined *)
(* stay distinct; JavaScript strings are TLA+ strings.                     *)
(***************************************************************************)
EXTENDS Integers, Sequences, FiniteSets, TLC

(***************************************************************************)
(* JavaScript values and the conversions the code relies on.               *)
(***************************************************************************)
Undef == [t |-> "undefined"]
Null == [t |-> "null"]
Num(n) == [t |-> "number", n |-> n]
Str(s) == [t |-> "string", s |-> s]
Arr(a) == [t |-> "array", a |-> a]
\* An object literal: its keys in insertion order and the value of each.
Obj(keys, vals) == [t |-> "object", keys |-> keys, vals |-> vals]

\* o.k: the value of property k, undefined when the object has no such key.
Prop(o, k) ==
  IF o.t = "object" /\ \E i \in 1..Len(o.keys) : o.keys[i] = k
  THEN o.vals[CHOOSE i \in 1..Len(o.keys) : o.keys[i] = k]
  ELSE Undef

\* The truthiness test of `if (v)` and `v ? a : b`.
Truthy(v) ==
  CASE v.t = "undefined" -> FALSE
    [] v.t = "null" -> FALSE
    [] v.t = "number" -> v.n # 0
    [] v.t = "string" -> v.s # ""
    [] OTHER -> TRUE

\* Array.prototype.join(sep) on an array of strings.
RECURSIVE Join(_, _)
Join(a, sep) ==
  IF a = <<>> THEN ""
  ELSE IF Len(a) = 1 THEN a[1]
  ELSE a[1] \o sep \o Join(Tail(a), sep)

\* String conversion of a template literal `${v}` and of Array.toString().
ToStr(v) ==
  CASE v.t = "undefined" -> "undefined"
    [] v.t = "null" -> "null"
    [] v.t = "number" -> ToString(v.n)
    [] v.t = "string" -> v.s
    [] v.t = "array" -> Join(v.a, ",")
    [] OTHER -> "[object Object]"

Quote(s) == "\"" \o s \o "\""

\* JSON.stringify on the values the model uses (arrays hold strings).
RECURSIVE JSONStringify(_)
RECURSIVE JSONMembers(_, _)
JSONMembers(o, i) ==
  IF i > Len(o.keys) THEN ""
  ELSE (IF i > 1 THEN "," ELSE "")
         \o Quote(o.keys[i]) \o ":" \o JSONStringify(o.vals[i])
         \o JSONMembers(o, i + 1)
JSONStringify(v) ==
  CASE v.t = "null" -> "null"
    [] v.t = "number" -> ToString(v.n)
    [] v.t = "string" -> Quote(v.s)
    [] v.t = "array" -> "[" \o Join([i \in 1..Len(v.a) |-> Quote(v.a[i])], ",") \o "]"
    [] v.t = "object" -> "{" \o JSONMembers(v, 1) \o "}"

\* Object spread `{ ...v }`: the own enumerable properties of v (the indexed
\* characters of a string, nothing for undefined, null and numbers).
Spread(v) ==
  CASE v.t = "object" -> v
    [] v.t = "string" ->
         Obj([i \in 1..Len(v.s) |-> ToString(i - 1)],
             [i \in 1..Len(v.s) |-> Str(SubSeq(v.s, i, i))])
    [] OTHER -> Obj(<<>>, <<>>)

(***************************************************************************)
(* Constructor options and the inputs the environment supplies.            *)
(***************************************************************************)
clientID == "aWQ6c2VjcmV0"
accessTokenURL == "https://ps.example/oauth/access_token"
apiBaseURL == "https://ps.example"

\* The message of the rejection `get` returns when no Axios instance is set.
NotAvailable == "Private Axios instance is not available."

\* Upper bound on the number of `get` calls in one behaviour of Spec.
MaxCalls == 3

\* Bodies a 2xx token response may carry; the code adopts whatever arrives.
TokenBodies ==
  { Obj(<<"access_token", "token_type", "expires">>,
        <<Str("tokA"), Str("Bearer"), Str("3600")>>),
    Obj(<<"access_token", "token_type", "expires">>,
        <<Str("tokB"), Str("Bearer"), Str("7200")>>),
    Obj(<<"token_type", "expires">>, <<Str("Bearer"), Str("3600")>>),
    Str("") }

\* Ways the token POST can fail, as the message of the rejection.
TokenFailures == {"Network Error", "Request failed with status code 401"}

\* Arguments of the `get` calls of Spec.
Resources == {"/student"}
Ids == {Undef, Num(0), Str("abc")}
Options ==
  { Undef, Obj(<<>>, <<>>),
    Obj(<<"expansions", "pagesize", "query">>,
        <<Arr(<<"a", "b">>), Num(50), Str("a==1")>>) }

\* Upper bound on the number of `get` calls in one behaviour of SpecPath.
MaxPathCalls == 1

\* An options object holding the given properties (undefined: property absent).
Opt(expansions, extensions, pagesize, query) ==
  LET pairs == << <<"expansions", expansions>>, <<"extensions", extensions>>,
                  <<"pagesize", pagesize>>, <<"query", query>> >>
      present == SelectSeq(pairs, LAMBDA pr : pr[2] # Undef)
  IN Obj([i \in 1..Len(present) |-> present[i][1]],
         [i \in 1..Len(present) |-> present[i][2]])

\* Arguments of the `get` calls of SpecPath: every id with a few options, and
\* every combination of options with an absent and a present id.
PathIds == {Undef, Null, Num(0), Str(""), Num(7), Str("abc")}
PathOptions ==
  {Undef} \cup
  { Opt(e, x, p, q) :
      e \in {Undef, Arr(<<>>), Arr(<<"a", "b">>)},
      x \in {Undef, Arr(<<"c">>)},
      p \in {Undef, Num(0), Num(50)},
      q \in {Undef, Str(""), Str("a==1"), Arr(<<>>), Arr(<<"a==1", "b==2">>)} }
PathInputs ==
  (PathIds \X {Undef, Opt(Undef, Undef, Undef, Undef),
               Opt(Arr(<<"a", "b">>), Undef, Num(50), Str("a==1"))})
  \cup ({Undef, Num(7)} \X PathOptions)

VARIABLES
  responseTransformers, \* constructor option: undefined or an array of stages
  posts,                \* token POSTs issued so far
  tokenPost,            \* state of the axios.post promise
  settlement,           \* what the promise settled with
  handled,              \* whether the .then/.catch callback has run
  _accessToken,         \* this._accessToken
  _axios,               \* this._axios
  instances,            \* every Axios instance createAxiosInstance returned
  log,                  \* console.log lines
  calls,                \* the `get` calls made: arguments, this._axios as the
                        \* call found it, and the promise it returned
  requests,             \* GET requests dispatched through this._axios
  normalized            \* the handleAxiosError calls made: input and output

vars ==
  <<responseTransformers, posts, tokenPost, settlement, handled, _accessToken,
    _axios, instances, log, calls, requests, normalized>>

\* Not yet there: the body and the outcome of a request still in flight.
Unset == [t |-> "unset"]

\* The construction-time value of this._accessToken.
EmptyToken ==
  Obj(<<"access_token", "token_type", "expires">>, <<Str(""), Str(""), Str("")>>)

\* Mutant of Transformers: the JSON stage is put after the caller's stages.
TransformersJSONLast(rt) ==
  IF Truthy(rt) THEN rt.a \o <<"_transformJSON">> ELSE <<"_transformJSON">>

\* const transformers = responseTransformers ? [_transformJSON].concat(...) : [...]
Transformers(rt) ==
  IF Truthy(rt) THEN <<"_transformJSON">> \o rt.a ELSE <<"_transformJSON">>

\* static createAxiosInstance(accessToken, baseURL, responseTransformers)
createAxiosInstance(accessToken, baseURL, stages) ==
  [t |-> "axios",
   baseURL |-> baseURL,
   headers |-> [Authorization |-> "Bearer " \o ToStr(accessToken)],
   transformResponse |-> IF Truthy(stages) THEN stages.a ELSE <<>>]

\* The state the constructor leaves behind, for a given responseTransformers.
Constructed(rt) ==
  /\ responseTransformers = rt
  /\ _accessToken = EmptyToken
  /\ _axios = Undef
  /\ posts = << [url |-> accessTokenURL,
                 headers |-> [Authorization |-> "Basic " \o clientID],
                 data |-> "grant_type=client_credentials"] >>
  /\ tokenPost = "pending"
  /\ settlement = Undef
  /\ handled = FALSE
  /\ instances = <<>>
  /\ log = <<>>
  /\ calls = <<>>
  /\ requests = <<>>
  /\ normalized = <<>>

Init == Constructed(Undef)

\* The token endpoint answers 2xx: the axios.post promise fulfils.
TokenResponse(data) ==
  /\ tokenPost = "pending"
  /\ tokenPost' = "fulfilled"
  /\ settlement' = [t |-> "response", data |-> data]
  /\ UNCHANGED <<responseTransformers, posts, handled, _accessToken, _axios,
                 instances, log, calls, requests, normalized>>

\* Network error or non-2xx status: the axios.post promise rejects.
TokenFailure(message) ==
  /\ tokenPost = "pending"
  /\ tokenPost' = "rejected"
  /\ settlement' = [t |-> "error", message |-> message]
  /\ UNCHANGED <<responseTransformers, posts, handled, _accessToken, _axios,
                 instances, log, calls, requests, normalized>>

\* The value the .then callback stores in this._axios.
ThenAxios(token) ==
  createAxiosInstance(Prop(token, "access_token"), apiBaseURL,
                      Arr(Transformers(responseTransformers)))

\* Mutant of ThenCallback: the success callback runs again on a settled fetch.
ThenCallbackRepeated ==
  /\ tokenPost = "fulfilled"
  /\ handled' = TRUE
  /\ _accessToken' = Spread(settlement.data)
  /\ _axios' = ThenAxios(_accessToken')
  /\ instances' = Append(instances, _axios')
  /\ UNCHANGED <<responseTransformers, posts, tokenPost, settlement, log, calls,
                 requests, normalized>>

\* .then(response => { ... })
ThenCallback ==
  /\ tokenPost = "fulfilled"
  /\ ~handled
  /\ handled' = TRUE
  /\ _accessToken' = Spread(settlement.data)
  /\ _axios' = ThenAxios(_accessToken')
  /\ instances' = Append(instances, _axios')
  /\ UNCHANGED <<responseTransformers, posts, tokenPost, settlement, log, calls,
                 requests, normalized>>

\* Mutant of CatchCallback: the failure handler posts for a token again.
CatchCallbackRetry ==
  /\ tokenPost = "rejected"
  /\ ~handled
  /\ posts' = Append(posts, posts[1])
  /\ tokenPost' = "pending"
  /\ settlement' = Undef
  /\ log' = Append(log, "Axios error: " \o settlement.message)
  /\ UNCHANGED <<responseTransformers, handled, _accessToken, _axios, instances,
                 calls, requests, normalized>>

\* .catch(err => { console.log(...) })
CatchCallback ==
  /\ tokenPost = "rejected"
  /\ ~handled
  /\ handled' = TRUE
  /\ log' = Append(log, "Axios error: " \o settlement.message)
  /\ UNCHANGED <<responseTransformers, posts, tokenPost, settlement,
                 _accessToken, _axios, instances, calls, requests,
                 normalized>>

\* Mutant of WithId: the id is tested against null and undefined only.
WithIdNotNullish(resource, id) ==
  IF id.t \notin {"undefined", "null"} THEN resource \o "/" \o ToStr(id) ELSE resource

\* The `/id` segment of `get`: if (id) resource += `/${id}`
WithId(resource, id) ==
  IF Truthy(id) THEN resource \o "/" \o ToStr(id) ELSE resource

\* resource += `expansions=${options.expansions.toString()}&` and its twin
ListPart(name, v) ==
  IF Truthy(v) THEN name \o "=" \o ToStr(v) \o "&" ELSE ""

\* Mutant of PagesizePart: no default when the page size is missing.
PagesizePartNoDefault(v) ==
  IF Truthy(v) THEN "pagesize=" \o ToStr(v) \o "&" ELSE ""

\* resource += options.pagesize ? `pagesize=${options.pagesize}&` : `pagesize=1000&`
PagesizePart(v) ==
  IF Truthy(v) THEN "pagesize=" \o ToStr(v) \o "&" ELSE "pagesize=1000&"

\* Mutant of QueryPart: a sequence is converted like a scalar, joined by `,`.
QueryPartNoJoin(v) ==
  IF Truthy(v) THEN "q=" \o ToStr(v) ELSE ""

\* resource += Array.isArray(query) ? `q=${query.join(';')}` : `q=${query}`
QueryPart(v) ==
  IF Truthy(v)
  THEN IF v.t = "array" THEN "q=" \o Join(v.a, ";") ELSE "q=" \o ToStr(v)
  ELSE ""

\* The query string `get` appends when an options object is supplied.
OptionsPart(options) ==
  IF Truthy(options)
  THEN "?" \o ListPart("expansions", Prop(options, "expansions"))
           \o ListPart("extensions", Prop(options, "extensions"))
           \o PagesizePart(Prop(options, "pagesize"))
           \o QueryPart(Prop(options, "query"))
  ELSE ""

\* The path `get` passes to this._axios.get.
GetPath(resource, id, options) == WithId(resource, id) \o OptionsPart(options)

\* Mutant of Get: a call that finds no Axios instance is left waiting for one.
GetQueued(resource, id, options) ==
  /\ calls' = Append(calls, [resource |-> resource, id |-> id,
                             options |-> options, axios |-> _axios,
                             promise |-> "pending", raw |-> Unset, result |-> Unset])
  /\ IF Truthy(_axios)
     THEN requests' = Append(requests, [call |-> Len(calls) + 1,
                                        url |-> GetPath(resource, id, options),
                                        baseURL |-> _axios.baseURL,
                                        headers |-> _axios.headers])
     ELSE UNCHANGED requests

\* get(resource, id, options)
Get(resource, id, options) ==
  IF Truthy(_axios)
  THEN /\ calls' = Append(calls, [resource |-> resource, id |-> id,
                                  options |-> options, axios |-> _axios,
                                  promise |-> "pending", raw |-> Unset, result |-> Unset])
       /\ requests' = Append(requests, [call |-> Len(calls) + 1,
                                        url |-> GetPath(resource, id, options),
                                        baseURL |-> _axios.baseURL,
                                        headers |-> _axios.headers])
  ELSE /\ calls' = Append(calls, [resource |-> resource, id |-> id,
                                  options |-> options, axios |-> _axios,
                                  promise |-> "rejected", raw |-> Unset,
                                  result |-> Str(NotAvailable)])
       /\ UNCHANGED requests

\* Some caller invokes `get`.
GetCall ==
  /\ Len(calls) < MaxCalls
  /\ \E resource \in Resources, id \in Ids, options \in Options :
       Get(resource, id, options)
  /\ UNCHANGED <<responseTransformers, posts, tokenPost, settlement, handled,
                 _accessToken, _axios, instances, log, normalized>>

Next ==
  \/ \E data \in TokenBodies : TokenResponse(data)
  \/ \E message \in TokenFailures : TokenFailure(message)
  \/ ThenCallback
  \/ CatchCallback
  \/ GetCall

Spec == Init /\ [][Next]_vars

\* Some caller invokes `get`, with arguments drawn from PathInputs.
PathGetCall ==
  /\ Len(calls) < MaxPathCalls
  /\ \E resource \in Resources, in \in PathInputs : Get(resource, in[1], in[2])
  /\ UNCHANGED <<responseTransformers, posts, tokenPost, settlement, handled,
                 _accessToken, _axios, instances, log, normalized>>

NextPath ==
  \/ TokenResponse(CHOOSE data \in TokenBodies : Prop(data, "access_token") = Str("tokA"))
  \/ ThenCallback
  \/ PathGetCall

\* The client with the path-building inputs of `get` widened.
SpecPath == Init /\ [][NextPath]_vars

(***************************************************************************)
(* Responses, the response-transform pipeline and handleAxiosError.        *)
(***************************************************************************)
\* Upper bounds of SpecSettle: `get` calls, and handleAxiosError calls.
MaxSettleCalls == 1
MaxNormalizations == 1

\* What a stage that throws leaves behind instead of a body.
Throw(name) == [t |-> "throw", error |-> name]

\* Values whose JSON text the resource endpoint may send.
JSONValues ==
  { Obj(<<"msg">>, <<Str("x")>>), Arr(<<"a", "b">>), Num(5), Str("hi"), Null }

\* JSON.parse: the value a text stands for; a SyntaxError for any other text.
JSONParse(s) ==
  IF \E v \in JSONValues : JSONStringify(v) = s
  THEN CHOOSE v \in JSONValues : JSONStringify(v) = s
  ELSE Throw("SyntaxError")

\* _transformJSON(response)
_transformJSON(response) ==
  IF response.t = "string" THEN JSONParse(response.s) ELSE response

\* typeof v
TypeOf(v) ==
  CASE v.t \in {"undefined", "number", "string"} -> v.t
    [] OTHER -> "object"

\* The stages a caller may supply: wrap is body => ({ data: body }), and
\* typeOf is body => typeof body.
CallerStages == {"wrap", "typeOf"}
ApplyStage(name, body) ==
  CASE name = "_transformJSON" -> _transformJSON(body)
    [] name = "wrap" -> Obj(<<"data">>, <<body>>)
    [] name = "typeOf" -> Str(TypeOf(body))

\* The transport runs transformResponse in order, each stage on the output of
\* the one before; a stage that throws ends the run.
RECURSIVE RunPipeline(_, _)
RunPipeline(stages, body) ==
  IF stages = <<>> \/ body.t = "throw" THEN body
  ELSE RunPipeline(Tail(stages), ApplyStage(stages[1], body))

\* The responseTransformers option of the constructor.
TransformerChoices ==
  { Undef, Arr(<<>>), Arr(<<"wrap">>), Arr(<<"wrap", "typeOf">>),
    Arr(<<"typeOf", "wrap">>), Arr(<<"wrap", "wrap">>) }

\* Bodies the resource endpoint may answer with, as the transport hands them
\* to the pipeline.
RawBodies ==
  { Str(JSONStringify(Obj(<<"msg">>, <<Str("x")>>))), Str(JSONStringify(Num(5))),
    Str("<html>"), Obj(<<"msg">>, <<Str("x")>>), Undef }

\* Errors a failed request rejects with: with or without a response, with or
\* without a request.
AxiosErrors ==
  { [t |-> "error", message |-> m, response |-> r, request |-> q] :
      m \in {"Request failed with status code 404", "Network Error"},
      r \in {Undef} \cup
            { [t |-> "object", status |-> 404, data |-> d] :
                d \in {Obj(<<"msg">>, <<Str("x")>>), Str("Not Found"), Null, Undef} },
      q \in {Undef, [t |-> "object"]} }

\* The prepend argument of handleAxiosError.
Prepends == {Undef, Str(""), Str("GET failed.")}

\* Mutant of handleAxiosError: the request is looked at before the response.
handleAxiosErrorRequestFirst(err, prepend) ==
  LET message1 ==
        IF Truthy(prepend) THEN ToStr(prepend) \o "  " \o err.message
        ELSE err.message
      data ==
        IF TypeOf(err.response.data) = "object"
        THEN JSONStringify(err.response.data)
        ELSE ToStr(err.response.data)
      message2 ==
        IF Truthy(err.request)
        THEN message1 \o "  Axios request was made, no response was received."
        ELSE IF Truthy(err.response)
             THEN message1 \o ": " \o data \o "."
             ELSE message1
  IN [err EXCEPT !.message = message2]

\* static handleAxiosError(err, prepend): err after the call, which is also
\* what the call returns.
handleAxiosError(err, prepend) ==
  LET message1 ==
        IF Truthy(prepend) THEN ToStr(prepend) \o "  " \o err.message
        ELSE err.message
      data ==
        IF TypeOf(err.response.data) = "object"
        THEN JSONStringify(err.response.data)
        ELSE ToStr(err.response.data)
      message2 ==
        IF Truthy(err.response)
        THEN message1 \o ": " \o data \o "."
        ELSE IF Truthy(err.request)
             THEN message1 \o "  Axios request was made, no response was received."
             ELSE message1
  IN [err EXCEPT !.message = message2]

\* The resource endpoint answers 2xx: the promise of call i fulfils with the
\* body the pipeline of its Axios instance makes of raw, or rejects with what
\* a stage threw.
Respond(j, raw) ==
  LET i == requests[j].call
      out == RunPipeline(calls[i].axios.transformResponse, raw)
  IN /\ calls[i].promise = "pending"
     /\ calls' = [calls EXCEPT ![i].raw = raw,
                               ![i].result = out,
                               ![i].promise =
                                 IF out.t = "throw" THEN "rejected" ELSE "fulfilled"]
     /\ UNCHANGED <<responseTransformers, posts, tokenPost, settlement, handled,
                    _accessToken, _axios, instances, log, requests, normalized>>

\* The request fails: the promise of call i rejects with an Axios error.
RequestFails(j, err) ==
  LET i == requests[j].call
  IN /\ calls[i].promise = "pending"
     /\ calls' = [calls EXCEPT ![i].result = err, ![i].promise = "rejected"]
     /\ UNCHANGED <<responseTransformers, posts, tokenPost, settlement, handled,
                    _accessToken, _axios, instances, log, requests, normalized>>

\* The caller of call i passes the Axios error it was rejected with to
\* handleAxiosError, which changes the error in place and returns it.
Normalize(i, prepend) ==
  /\ Len(normalized) < MaxNormalizations
  /\ calls[i].promise = "rejected"
  /\ calls[i].result.t = "error"
  /\ calls' = [calls EXCEPT ![i].result = handleAxiosError(calls[i].result, prepend)]
  /\ normalized' = Append(normalized, [call |-> i, err |-> calls[i].result,
                                       prepend |-> prepend,
                                       returned |-> calls'[i].result])
  /\ UNCHANGED <<responseTransformers, posts, tokenPost, settlement, handled,
                 _accessToken, _axios, instances, log, requests>>

\* Some caller invokes `get`.
SettleGetCall ==
  /\ Len(calls) < MaxSettleCalls
  /\ Get("/student", Num(7), Undef)
  /\ UNCHANGED <<responseTransformers, posts, tokenPost, settlement, handled,
                 _accessToken, _axios, instances, log, normalized>>

InitSettle == \E rt \in TransformerChoices : Constructed(rt)

NextSettle ==
  \/ TokenResponse(CHOOSE data \in TokenBodies : Prop(data, "access_token") = Str("tokA"))
  \/ ThenCallback
  \/ SettleGetCall
  \/ \E j \in 1..Len(requests), raw \in RawBodies : Respond(j, raw)
  \/ \E j \in 1..Len(requests), err \in AxiosErrors : RequestFails(j, err)
  \/ \E i \in 1..Len(calls), prepend \in Prepends : Normalize(i, prepend)

\* The client with its requests answered and their failures normalized.
SpecSettle == InitSettle /\ [][NextSettle]_vars

(***************************************************************************)
(* Lifecycle properties, checked under Spec.                               *)
(***************************************************************************)
Initializing == _axios = Undef
Ready == _axios # Undef

RequestsOf(i) == {j \in 1..Len(requests) : requests[j].call = i}

\* C1: every `get` that found this._axios unset returned, in the same step, a
\* promise rejected with the fixed message, whatever its arguments; no request
\* was dispatched for it, and none is dispatched for it later, also once the
\* client is Ready.
C1_GetWhileInitializingRejects ==
  \A i \in 1..Len(calls) :
    calls[i].axios = Undef =>
      /\ calls[i].promise = "rejected"
      /\ calls[i].result = Str(NotAvailable)
      /\ RequestsOf(i) = {}

\* Witness of C1: the client is Ready, a call made while it was Initializing is
\* on record, and a later call was dispatched.
C1_Witness ==
  /\ Ready
  /\ \E i, k \in 1..Len(calls) :
       /\ i < k
       /\ calls[i].axios = Undef
       /\ calls[i].options # Undef
       /\ calls[k].axios # Undef
       /\ RequestsOf(k) # {}

\* C2, state part: this._axios is set exactly when the token POST fulfilled and
\* the success callback has run, and it is the only instance ever created.
C2_ReadyState ==
  /\ Len(instances) <= 1
  /\ Ready <=> (tokenPost = "fulfilled" /\ handled)
  /\ Ready => instances = <<_axios>>
  /\ Initializing => instances = <<>>

\* C2, step part: a set this._axios never changes, and it becomes set only in
\* the step of the success callback of a fulfilled token POST.
C2_ReadyStep ==
  /\ Ready => _axios' = _axios
  /\ (Initializing /\ _axios' # Undef) =>
       (tokenPost = "fulfilled" /\ ~handled /\ handled' /\ calls' = calls)

\* C2: for one client the transition Initializing -> Ready happens at most
\* once, only on token-fetch success, is never undone, and no second Axios
\* instance is ever created or held, under any interleaving with `get` calls.
C2_ReadyOnceOnSuccess == [](C2_ReadyState) /\ [][C2_ReadyStep]_vars

\* Witness of C2: Ready, with one `get` on record from before the transition
\* and one from after it.
C2_Witness ==
  /\ Ready
  /\ Len(instances) = 1
  /\ \E i, k \in 1..Len(calls) : calls[i].axios = Undef /\ calls[k].axios = _axios

\* C3: once the token POST has failed there is still exactly one token POST,
\* this._axios and this._accessToken hold their construction-time values, the
\* failure is only logged, and every `get` on record was rejected with the
\* fixed message without a request.
C3_FailedFetchStaysInitializing ==
  tokenPost = "rejected" =>
    /\ Len(posts) = 1
    /\ _axios = Undef
    /\ _accessToken = EmptyToken
    /\ instances = <<>>
    /\ requests = <<>>
    /\ log = IF handled THEN <<"Axios error: " \o settlement.message>> ELSE <<>>
    /\ \A i \in 1..Len(calls) :
         calls[i].promise = "rejected" /\ calls[i].result = Str(NotAvailable)

\* Witness of C3: the fetch failed, the failure handler ran, and `get` calls
\* from before and after the failure are on record.
C3_Witness ==
  /\ tokenPost = "rejected"
  /\ handled
  /\ Len(calls) = MaxCalls

\* C4 as claimed: whenever this._axios is set, the token response carried a
\* non-empty access_token string, the bearer header is built from it, and
\* every dispatched request carries that header.
C4_BearerIsResponseToken ==
  Ready =>
    /\ tokenPost = "fulfilled"
    /\ settlement.t = "response"
    /\ LET token == Prop(settlement.data, "access_token")
       IN /\ token.t = "string"
          /\ token.s # ""
          /\ _axios.headers.Authorization = "Bearer " \o token.s
          /\ \A j \in 1..Len(requests) :
               requests[j].headers.Authorization = "Bearer " \o token.s

(***************************************************************************)
(* String helpers for the properties of the dispatched path.               *)
(***************************************************************************)
StartsWith(s, prefix) ==
  Len(prefix) <= Len(s) /\ SubSeq(s, 1, Len(prefix)) = prefix

\* The pieces of s between occurrences of the one-character separator sep.
RECURSIVE SplitFrom(_, _, _, _)
SplitFrom(s, sep, start, i) ==
  IF i > Len(s) THEN << SubSeq(s, start, Len(s)) >>
  ELSE IF SubSeq(s, i, i) = sep
       THEN << SubSeq(s, start, i - 1) >> \o SplitFrom(s, sep, i + 1, i + 1)
       ELSE SplitFrom(s, sep, start, i + 1)
Split(s, sep) == SplitFrom(s, sep, 1, 1)

HasChar(s, c) == \E i \in 1..Len(s) : SubSeq(s, i, i) = c

\* What follows the first `?` of a path, split at `&`; <<>> without a `?`.
QueryComponents(url) ==
  IF HasChar(url, "?")
  THEN LET at == CHOOSE i \in 1..Len(url) :
                   /\ SubSeq(url, i, i) = "?"
                   /\ \A k \in 1..(i - 1) : SubSeq(url, k, k) # "?"
       IN Split(SubSeq(url, at + 1, Len(url)), "&")
  ELSE <<>>

Named(components, name) ==
  SelectSeq(components, LAMBDA c : StartsWith(c, name \o "="))

\* The call that dispatched request j.
CallOf(j) == calls[requests[j].call]

(***************************************************************************)
(* Properties of the path `get` dispatches, checked under SpecPath.        *)
(***************************************************************************)
\* The path of the resource and an id written as text.
Base(resource, id) ==
  IF id \in {Num(0), Str(""), Null, Undef} THEN resource
  ELSE resource \o "/" \o (IF id.t = "number" THEN ToString(id.n) ELSE id.s)

\* The components the wire format lists for an options object, in its order.
Listed(options) ==
  LET e == Prop(options, "expansions")
      x == Prop(options, "extensions")
      p == Prop(options, "pagesize")
      q == Prop(options, "query")
  IN (IF Truthy(e) THEN << "expansions=" \o Join(e.a, ",") >> ELSE <<>>)
     \o (IF Truthy(x) THEN << "extensions=" \o Join(x.a, ",") >> ELSE <<>>)
     \o << "pagesize=" \o (IF Truthy(p) THEN ToString(p.n) ELSE "1000") >>
     \o (IF Truthy(q)
         THEN << "q=" \o (IF q.t = "array" THEN Join(q.a, ";") ELSE q.s) >>
         ELSE <<>>)

\* C5 as claimed: with an options object the dispatched path is
\* <resource>[/<id>]? followed by the present components in the order
\* expansions, extensions, pagesize, q, one `&` between neighbours and none
\* after the last.
C5_ComponentsJoinedByAmpersand ==
  \A j \in 1..Len(requests) :
    CallOf(j).options # Undef =>
      requests[j].url =
        Base(CallOf(j).resource, CallOf(j).id) \o "?" \o Join(Listed(CallOf(j).options), "&")

\* The page-size rule; zeroCounts says whether a page size of 0 counts as given.
PagesizeRule(zeroCounts) ==
  \A j \in 1..Len(requests) :
    LET c == CallOf(j)
        url == requests[j].url
        p == Prop(c.options, "pagesize")
    IN IF c.options = Undef
       THEN /\ url = Base(c.resource, c.id)
            /\ ~HasChar(url, "?")
            /\ Named(QueryComponents(url), "pagesize") = <<>>
       ELSE Named(QueryComponents(url), "pagesize") =
              << "pagesize=" \o (IF (IF zeroCounts THEN p # Undef ELSE Truthy(p))
                                 THEN ToString(p.n) ELSE "1000") >>

\* C6 as claimed: without options the path is the resource path (and /<id>)
\* alone; with options there is exactly one pagesize component, holding the
\* supplied page size whenever one is supplied and 1000 otherwise.
C6_PagesizeWheneverSupplied == PagesizeRule(TRUE)

\* C6: without options the path is the resource path (and /<id>) alone, with
\* no `?` and no pagesize; with options there is exactly one pagesize
\* component, holding the supplied page size when it is non-zero and 1000
\* when the page size is absent or 0.
C6_PagesizeRule == PagesizeRule(FALSE)

\* Witness of C6: a request dispatched for options whose page size is 0, and
\* so carries the default of 1000.
C6_Witness ==
  \E j \in 1..Len(requests) :
    /\ CallOf(j).options # Undef
    /\ Prop(CallOf(j).options, "pagesize") = Num(0)
    /\ Prop(CallOf(j).options, "query") # Undef
    /\ Named(QueryComponents(requests[j].url), "pagesize") = << "pagesize=1000" >>

QueryRule(emptyCounts) ==
  \A j \in 1..Len(requests) :
    LET c == CallOf(j)
        q == Prop(c.options, "query")
        comps == QueryComponents(requests[j].url)
    IN c.options # Undef =>
         IF (IF emptyCounts THEN q # Undef ELSE Truthy(q))
         THEN /\ Named(comps, "q") =
                   << "q=" \o (IF q.t = "array" THEN Join(q.a, ";") ELSE q.s) >>
              /\ comps[Len(comps)] = Named(comps, "q")[1]
         ELSE Named(comps, "q") = <<>>

\* C8 as claimed: a q= component is appended whenever query is present.
C8_QueryWheneverPresent == QueryRule(TRUE)

\* C8: a query given as a sequence yields q= and its expressions joined by
\* `;` in order (an empty sequence yields a bare q=); a non-empty scalar string
\* yields q= and the string unchanged; an absent query or an empty string
\* yields no q= component. The q= component is the last one.
C8_QueryRule == QueryRule(FALSE)

\* Witness of C8: a request whose query was the empty string, and so has no
\* q= component.
C8_Witness ==
  \E j \in 1..Len(requests) :
    /\ Prop(CallOf(j).options, "query") = Str("")
    /\ Prop(CallOf(j).options, "expansions") # Undef
    /\ Named(QueryComponents(requests[j].url), "q") = <<>>

(***************************************************************************)
(* Properties of handleAxiosError and of the response-transform pipeline,  *)
(* checked under SpecSettle.                                               *)
(***************************************************************************)
\* The response body as text: objects serialized, anything else converted.
BodyText(data) ==
  IF data.t \in {"object", "array", "null"} THEN JSONStringify(data) ELSE ToStr(data)

\* The suffix by class: response first, then request, then neither.
Suffix(err) ==
  IF err.response # Undef THEN ": " \o BodyText(err.response.data) \o "."
  ELSE IF err.request # Undef
       THEN "  Axios request was made, no response was received."
       ELSE ""

\* The rule of handleAxiosError; emptyCounts says whether a prepend of ''
\* counts as supplied.
NormalizerRule(emptyCounts) ==
  \A k \in 1..Len(normalized) :
    LET n == normalized[k]
        supplied == IF emptyCounts THEN n.prepend # Undef ELSE Truthy(n.prepend)
        front == IF supplied THEN n.prepend.s \o "  " ELSE ""
    IN /\ n.returned = [n.err EXCEPT !.message = front \o n.err.message \o Suffix(n.err)]
       /\ supplied => StartsWith(n.returned.message, n.prepend.s \o "  ")
       /\ (\A l \in (k + 1)..Len(normalized) : normalized[l].call # n.call) =>
            calls[n.call].result = n.returned

Supplied == IF responseTransformers = Undef THEN <<>> ELSE responseTransformers.a

\* C10: the pipeline of the Axios instance is the JSON stage followed by the
\* caller's stages in the order given, none dropped, doubled or moved; a
\* response is what the caller's stages, run in order, make of the parsed
\* body when the body is a string and of the body itself when it is not.
C10_PipelineOrder ==
  /\ Ready => _axios.transformResponse = <<"_transformJSON">> \o Supplied
  /\ \A i \in 1..Len(calls) :
       calls[i].raw # Unset =>
         LET raw == calls[i].raw
             parsed == IF raw.t = "string" THEN JSONParse(raw.s) ELSE raw
         IN calls[i].result = RunPipeline(Supplied, parsed)

\* Witness of C10: with the stages typeOf, wrap supplied, a JSON text came
\* out as { data: 'object' }.
C10_Witness ==
  \E i \in 1..Len(calls) :
    /\ Supplied = <<"typeOf", "wrap">>
    /\ calls[i].raw = Str("{\"msg\":\"x\"}")
    /\ calls[i].promise = "fulfilled"
    /\ calls[i].result = Obj(<<"data">>, <<Str("object")>>)
====
